---- MODULE Spec2Model ----
(***************************************************************************)
(* Model of the data-transformation pipeline of the VC reporting backend:  *)
(*   services/currency_conversion.py   (rate cache, conversion)            *)
(*   services/data_transformation.py   (fan-out, upsert, orchestration)    *)
(*   services/metrics_calculation.py   (derived metrics)                   *)
(*                                                                         *)
(* Numbers.  A Decimal amount is an integer number of cents (scale 2), a   *)
(* Decimal rate an integer number of hundredths (1.25 is 125).             *)
(*                                                                         *)
(* Calls.  `await f(...)` on the service helpers is modelled as the call   *)
(* f(...) followed by the use of its result; the database session is the   *)
(* unit-of-work of SQLAlchemy: objects loaded from it are tracked, their   *)
(* attribute changes and the added objects reach the database at commit.   *)
(***************************************************************************)
EXTENDS Integers, Sequences, FiniteSets, TLC

(***************************************************************************)
(* Bounds of the model                                                     *)
(***************************************************************************)
\* number of get_exchange_rate / convert_currency calls in a process lifetime
MaxCalls == 4

\* currencies and dates of the stand-alone rate calls
Currencies == {"USD", "CAD"}
Dates == {1}

\* rates the external source may answer with (hundredths); 0 is a value the
\* parser accepts: Decimal(str(0))
Rates == {0, 125}

\* amounts passed to convert_currency (cents)
Amounts == {-250, 150}

\* size of the lru_cache of get_exchange_rate (maxsize=100 in the source),
\* scaled down: eviction depends only on the number of distinct keys
\* exceeding the size
LruMaxSize == 2

VARIABLES
    exchange_rates,   \* the module-level dict: key -> rate, for stored keys
    lru,              \* the lru_cache of get_exchange_rate: <<[key, value]>>, oldest first
    fetchCount,       \* key -> number of _fetch_exchange_rate invocations
    fetchedOk,        \* keys whose external fetch has succeeded
    firstStored,      \* key -> the value first stored in exchange_rates
    calls,            \* number of calls made so far
    lastCall,         \* what the last call did and returned
    metrics_input,    \* table metrics_input: period -> name of the input row, or "none"
    reporting_financials,  \* table reporting_financials (committed rows)
    reporting_metrics,     \* table quarterly_reporting_metrics (committed rows)
    session_dirty,    \* db_session: row id -> attribute values set on a loaded row, not yet committed
    next_id,          \* stands for uuid.uuid4(): the next fresh row id
    runs,             \* number of transform_data invocations started
    pc,               \* position of the transform_data invocation
    inv,              \* locals of the transform_data invocation
    trace,            \* what the invocation has done so far, in order
    start,            \* committed tables and session at the start of the invocation
    prev,             \* the previous invocation, when it succeeded
    input_changes,    \* number of changes made to the input rows
    calc,             \* the last stand-alone call of a MetricsCalculationService method
    peer,             \* a transform_data invocation of another worker, with its own session
    upd,              \* the last update_exchange_rates call
    callers,          \* threads calling get_exchange_rate: thread -> position and locals
    gate              \* the clock, a RateLimiter object and the requests the middleware has seen

rateVars == <<exchange_rates, lru, fetchCount, fetchedOk, firstStored, calls, lastCall>>

cacheVars == <<exchange_rates, lru>>

rateGhostVars == <<fetchCount, fetchedOk, firstStored, calls, lastCall>>

tableVars == <<reporting_financials, reporting_metrics>>

\* what the single-invocation steps leave alone
extVars == <<peer, upd, callers, gate>>

transformVars == <<metrics_input, reporting_financials, reporting_metrics, session_dirty,
                   next_id, runs, pc, inv, trace, start, prev, input_changes>>

vars == <<exchange_rates, lru, fetchCount, fetchedOk, firstStored, calls, lastCall,
          metrics_input, reporting_financials, reporting_metrics, session_dirty,
          next_id, runs, pc, inv, trace, start, prev, input_changes, calc, peer, upd, callers, gate>>

Keys == [from_currency : Currencies, to_currency : Currencies, date : Dates]

Key(f, t, d) == [from_currency |-> f, to_currency |-> t, date |-> d]

\* what requests.get / response.json() hand to _fetch_exchange_rate
Responses ==
    [kind : {"ok"}, rate : Rates]
    \cup [kind : {"request_error", "no_rates", "no_symbol"}, rate : {0}]

(***************************************************************************)
(* currency_conversion.py                                                  *)
(***************************************************************************)
\* bool(Decimal): a zero Decimal is falsy
Truthy(rate) == rate # 0

\* faulty variant: a failed fetch answers with the rate 1.00 instead of
\* raising
_fetch_exchange_rate_default(resp) ==
    IF resp.kind = "ok"
    THEN [ok |-> TRUE, rate |-> resp.rate, error |-> ""]
    ELSE [ok |-> TRUE, rate |-> 100, error |-> ""]

_fetch_exchange_rate(resp) ==
    IF resp.kind = "request_error"
    THEN [ok |-> FALSE, rate |-> 0, error |-> "Failed to fetch exchange rate from API"]
    ELSE IF resp.kind \in {"no_rates", "no_symbol"}
    THEN [ok |-> FALSE, rate |-> 0, error |-> "Invalid API response"]
    ELSE [ok |-> TRUE, rate |-> resp.rate, error |-> ""]

LruIndex(cache, k) ==
    IF \E i \in 1..Len(cache) : cache[i].key = k
    THEN CHOOSE i \in 1..Len(cache) : cache[i].key = k
    ELSE 0

RemoveAt(s, i) == SubSeq(s, 1, i - 1) \o SubSeq(s, i + 1, Len(s))

\* functools.lru_cache: a hit moves the entry to the most recent end
LruTouch(cache, i) == Append(RemoveAt(cache, i), cache[i])

\* functools.lru_cache: a new result is stored, the oldest entry is evicted
\* when the cache is full
LruStore(cache, k, v) ==
    LET added == Append(cache, [key |-> k, value |-> v])
    IN  IF Len(added) > LruMaxSize THEN Tail(added) ELSE added

\* the dict lookup of lines 49-53: the cached rate is used when it is truthy
DictHit(rates, k) == k \in DOMAIN rates /\ Truthy(rates[k])

\* faulty variant: storing a rate drops the entries of the other keys
DictStore_single(rates, k, v) ==
    [x \in {k} |-> v]

\* line 63: exchange_rates[cache_key] = rate
DictStore(rates, k, v) ==
    [x \in (DOMAIN rates) \cup {k} |-> IF x = k THEN v ELSE rates[x]]

\* faulty variant: no lru_cache and no dict lookup, every call asks the
\* external source
get_exchange_rate_uncached(rates, cache, k, resp) ==
    LET f == _fetch_exchange_rate(resp)
    IN  IF f.ok
        THEN [ok |-> TRUE, rate |-> f.rate, rates |-> DictStore(rates, k, f.rate),
              lru |-> cache, fetches |-> 1, stored |-> TRUE]
        ELSE [ok |-> FALSE, rate |-> 0, rates |-> rates,
              lru |-> cache, fetches |-> 1, stored |-> FALSE]

\* get_exchange_rate on the cache state (rates, cache) with the answer resp
\* of the external source, should it be asked
get_exchange_rate(rates, cache, k, resp) ==
    LET i == LruIndex(cache, k)
    IN  IF i # 0
        THEN [ok |-> TRUE, rate |-> cache[i].value, rates |-> rates,
              lru |-> LruTouch(cache, i), fetches |-> 0, stored |-> FALSE]
        ELSE IF DictHit(rates, k)
        THEN [ok |-> TRUE, rate |-> rates[k], rates |-> rates,
              lru |-> LruStore(cache, k, rates[k]), fetches |-> 0, stored |-> FALSE]
        ELSE LET f == _fetch_exchange_rate(resp)
             IN  IF f.ok
                 THEN [ok |-> TRUE, rate |-> f.rate,
                       rates |-> DictStore(rates, k, f.rate),
                       lru |-> LruStore(cache, k, f.rate), fetches |-> 1, stored |-> TRUE]
                 ELSE [ok |-> FALSE, rate |-> 0, rates |-> rates,
                       lru |-> cache, fetches |-> 1, stored |-> FALSE]

\* Decimal.__round__(2): quantize to cents, ROUND_HALF_EVEN.  n is
\* amount (cents) * rate (hundredths), i.e. in units of 1/10000
Round2(n) ==
    LET q == n \div 100
        r == n % 100
    IN  IF r > 50 THEN q + 1
        ELSE IF r < 50 THEN q
        ELSE IF q % 2 = 0 THEN q ELSE q + 1

\* faulty variant: no shortcut for equal currencies
convert_currency_no_shortcut(rates, cache, amount, k, resp) ==
    LET g == get_exchange_rate(rates, cache, k, resp)
    IN  IF g.ok
        THEN [ok |-> TRUE, amount |-> Round2(amount * g.rate), rates |-> g.rates,
              lru |-> g.lru, lookups |-> 1, fetches |-> g.fetches, rate |-> g.rate]
        ELSE [ok |-> FALSE, amount |-> 0, rates |-> g.rates,
              lru |-> g.lru, lookups |-> 1, fetches |-> g.fetches, rate |-> 0]

convert_currency(rates, cache, amount, k, resp) ==
    IF k.from_currency = k.to_currency
    THEN [ok |-> TRUE, amount |-> amount, rates |-> rates, lru |-> cache,
          lookups |-> 0, fetches |-> 0, rate |-> 0]
    ELSE LET g == get_exchange_rate(rates, cache, k, resp)
         IN  IF g.ok
             THEN [ok |-> TRUE, amount |-> Round2(amount * g.rate), rates |-> g.rates,
                   lru |-> g.lru, lookups |-> 1, fetches |-> g.fetches, rate |-> g.rate]
             ELSE [ok |-> FALSE, amount |-> 0, rates |-> g.rates,
                   lru |-> g.lru, lookups |-> 1, fetches |-> g.fetches, rate |-> 0]

(***************************************************************************)
(* Values, rows and inputs of the transformation                           *)
(***************************************************************************)
\* a Python value held by an attribute or a dict entry
None == [kind |-> "None", v |-> 0]

Dec(x) == [kind |-> "Decimal", v |-> x]

\* a dict that has no entry under the name
Absent == [kind |-> "absent", v |-> 0]

\* the field list of convert_financials, in its order
MonetaryFields ==
    <<"total_revenue", "recurring_revenue", "gross_profit", "sales_marketing_expense",
      "total_operating_expense", "ebitda", "net_income", "cash_burn", "cash_balance",
      "debt_outstanding">>

FieldSet == {MonetaryFields[i] : i \in 1..Len(MonetaryFields)}

EntryNames == FieldSet \cup {"exchange_rate_used"}

\* the empty dict {}
EmptyEntry == [n \in EntryNames |-> Absent]

\* target_currencies of transform_data
target_currencies == <<"USD", "CAD">>

AllCurrencies == {"USD", "CAD", "EUR"}

\* periods (company_id, reporting_year, reporting_quarter) of the model
Periods == {<<"c1", 2023, 1>>, <<"c1", 2023, 2>>}

\* the MetricsInput rows the intake may store for a period
InputNames == {"usd1", "usd2", "eur1"}

InputValues(name) ==
    IF name = "usd1" THEN
        [total_revenue |-> Dec(1000), recurring_revenue |-> Dec(800), gross_profit |-> Dec(600),
         sales_marketing_expense |-> Dec(200), total_operating_expense |-> Dec(500),
         ebitda |-> Dec(300), net_income |-> Dec(-250), cash_burn |-> Dec(50),
         cash_balance |-> Dec(1002), debt_outstanding |-> None]
    ELSE IF name = "usd2" THEN
        [total_revenue |-> Dec(1200), recurring_revenue |-> Dec(800), gross_profit |-> Dec(600),
         sales_marketing_expense |-> Dec(200), total_operating_expense |-> Dec(500),
         ebitda |-> Dec(300), net_income |-> Dec(-250), cash_burn |-> Dec(0),
         cash_balance |-> Dec(1002), debt_outstanding |-> Dec(500)]
    ELSE IF name = "example1" THEN
        [total_revenue |-> Dec(10000), recurring_revenue |-> Dec(8000),
         gross_profit |-> Dec(6000), sales_marketing_expense |-> Dec(2000),
         total_operating_expense |-> Dec(5000), ebitda |-> Dec(3000),
         net_income |-> Dec(2500), cash_burn |-> Dec(3000),
         cash_balance |-> Dec(10000), debt_outstanding |-> Dec(5000)]
    ELSE IF name = "zero1" THEN
        [total_revenue |-> Dec(0), recurring_revenue |-> Dec(0), gross_profit |-> Dec(0),
         sales_marketing_expense |-> Dec(150), total_operating_expense |-> Dec(150),
         ebitda |-> Dec(-150), net_income |-> Dec(-150), cash_burn |-> Dec(0),
         cash_balance |-> Dec(1000), debt_outstanding |-> None]
    ELSE
        [total_revenue |-> Dec(0), recurring_revenue |-> Dec(0), gross_profit |-> Dec(10),
         sales_marketing_expense |-> Dec(2), total_operating_expense |-> Dec(6),
         ebitda |-> Dec(-6), net_income |-> Dec(-2), cash_burn |-> Dec(200),
         cash_balance |-> Dec(1000), debt_outstanding |-> None]

InputRow(name) ==
    [currency |-> IF name = "eur1" THEN "EUR" ELSE "USD",
     values |-> InputValues(name),
     employees |-> IF name \in {"usd1", "example1"} THEN 50 ELSE 0,
     fiscal_reporting_date |-> 1,
     fiscal_reporting_quarter |-> 1]

(***************************************************************************)
(* metrics_calculation.py                                                  *)
(***************************************************************************)
\* n / d rounded to an integer, ties to even (the Decimal context's rounding)
RoundHalfEven(n, d) ==
    LET nn == IF d < 0 THEN -n ELSE n
        dd == IF d < 0 THEN -d ELSE d
        q == nn \div dd
        r == nn % dd
    IN  IF 2 * r > dd THEN q + 1
        ELSE IF 2 * r < dd THEN q
        ELSE IF q % 2 = 0 THEN q ELSE q + 1

\* digits kept after the cents by an unrounded Decimal quotient (the context
\* keeps 28 significant digits)
QuotientScale == 10000

\* result in cents
calculate_arr(recurring_revenue) == recurring_revenue * 4

\* result in hundredths of a percent
calculate_percentage_of_revenue(value, total_revenue) ==
    IF total_revenue = 0 THEN 0
    ELSE RoundHalfEven(value * 100 * 100, total_revenue)

calculate_recurring_percentage_revenue(recurring_revenue, total_revenue) ==
    calculate_percentage_of_revenue(recurring_revenue, total_revenue)

\* faulty variant: a head count of zero is taken as one
calculate_per_fte_min_one(value, employees) ==
    RoundHalfEven(value, IF employees = 0 THEN 1 ELSE employees)

\* result in cents
calculate_per_fte(value, employees) ==
    IF employees = 0 THEN 0
    ELSE RoundHalfEven(value, employees)

calculate_revenue_per_fte(total_revenue, employees) ==
    calculate_per_fte(total_revenue, employees)

calculate_gross_profit_per_fte(gross_profit, employees) ==
    calculate_per_fte(gross_profit, employees)

\* cash_burn / 3, not quantized: result in 1/QuotientScale of a cent
calculate_monthly_cash_burn(cash_burn) ==
    RoundHalfEven(cash_burn * QuotientScale, 3)

\* faulty variant: the runway is quantized to whole months
calculate_runway_months_whole(cash_balance, monthly_cash_burn) ==
    IF monthly_cash_burn = 0 THEN 0
    ELSE RoundHalfEven(cash_balance * QuotientScale, monthly_cash_burn) * 10

\* cash_balance in cents, monthly_cash_burn in 1/QuotientScale of a cent;
\* result in tenths of a month
calculate_runway_months(cash_balance, monthly_cash_burn) ==
    IF monthly_cash_burn = 0 THEN 0
    ELSE RoundHalfEven(cash_balance * QuotientScale * 10, monthly_cash_burn)

\* the attribute values of the ReportingMetrics built from an input row
DerivedValues(row) ==
    LET v == row.values
        monthly == calculate_monthly_cash_burn(v.cash_burn.v)
    IN  [currency |-> row.currency,
         arr |-> calculate_arr(v.recurring_revenue.v),
         recurring_percentage_revenue |->
             calculate_recurring_percentage_revenue(v.recurring_revenue.v, v.total_revenue.v),
         revenue_per_fte |-> calculate_revenue_per_fte(v.total_revenue.v, row.employees),
         gross_profit_per_fte |-> calculate_gross_profit_per_fte(v.gross_profit.v, row.employees),
         monthly_cash_burn |-> monthly,
         runway_months |-> calculate_runway_months(v.cash_balance.v, monthly),
         sales_marketing_percentage_revenue |->
             calculate_percentage_of_revenue(v.sales_marketing_expense.v, v.total_revenue.v),
         total_operating_percentage_revenue |->
             calculate_percentage_of_revenue(v.total_operating_expense.v, v.total_revenue.v),
         gross_profit_margin |->
             calculate_percentage_of_revenue(v.gross_profit.v, v.total_revenue.v),
         ltm_total_revenue |-> None,
         fiscal_reporting_date |-> row.fiscal_reporting_date,
         fiscal_reporting_quarter |-> row.fiscal_reporting_quarter]

\* faulty variant: a missing input row is replaced by a default one
calculate_derived_metrics_default(table, id, period) ==
    [ok |-> TRUE, error |-> "",
     metrics |-> [id |-> id, company_id |-> period[1], reporting_year |-> period[2],
                  reporting_quarter |-> period[3],
                  values |-> DerivedValues(InputRow(IF table[period] = "none" THEN "eur1"
                                                    ELSE table[period]))]]

\* faulty variant: the LTM revenue is extrapolated from the one quarter
calculate_derived_metrics_extrapolated(table, id, period) ==
    IF table[period] = "none"
    THEN [ok |-> FALSE, error |-> "No input metrics found",
          metrics |-> [id |-> 0, company_id |-> period[1], reporting_year |-> period[2],
                       reporting_quarter |-> period[3],
                       values |-> DerivedValues(InputRow("usd1"))]]
    ELSE [ok |-> TRUE, error |-> "",
          metrics |-> [id |-> id, company_id |-> period[1], reporting_year |-> period[2],
                       reporting_quarter |-> period[3],
                       values |-> [DerivedValues(InputRow(table[period])) EXCEPT
                                      !.ltm_total_revenue =
                                          Dec(4 * InputRow(table[period]).values.total_revenue.v)]]]

\* calculate_derived_metrics: the query of lines 39-43 on the table, the
\* ValueError of line 46, else a new ReportingMetrics (fresh id) holding the
\* derived values
calculate_derived_metrics(table, id, period) ==
    IF table[period] = "none"
    THEN [ok |-> FALSE, error |-> "No input metrics found",
          metrics |-> [id |-> 0, company_id |-> period[1], reporting_year |-> period[2],
                       reporting_quarter |-> period[3],
                       values |-> DerivedValues(InputRow("usd1"))]]
    ELSE [ok |-> TRUE, error |-> "",
          metrics |-> [id |-> id, company_id |-> period[1], reporting_year |-> period[2],
                       reporting_quarter |-> period[3],
                       values |-> DerivedValues(InputRow(table[period]))]]

\* result in hundredths of a percent
calculate_growth_rate(current_value, previous_value) ==
    IF previous_value = 0 THEN 0
    ELSE RoundHalfEven((current_value - previous_value) * 100 * 100, previous_value)

\* sum(q.field for q in quarterly_metrics) over the first n rows
RECURSIVE SumField(_, _, _)
SumField(quarterly_metrics, field, n) ==
    IF n = 0 THEN 0
    ELSE SumField(quarterly_metrics, field, n - 1)
         + InputRow(quarterly_metrics[n]).values[field].v

NoLtm ==
    [ltm_total_revenue |-> 0, ltm_gross_profit |-> 0, ltm_sales_marketing_expense |-> 0,
     ltm_gross_margin |-> 0, ltm_operating_expense |-> 0, ltm_ebitda |-> 0,
     ltm_net_income |-> 0, ltm_ebitda_margin |-> 0, ltm_net_income_margin |-> 0]

\* faulty variant: the length check accepts a partial year
calculate_ltm_metrics_partial(quarterly_metrics) ==
    IF Len(quarterly_metrics) > 4 \/ Len(quarterly_metrics) = 0
    THEN [ok |-> FALSE, error |-> "LTM calculations require exactly 4 quarters of data",
          ltm |-> NoLtm]
    ELSE LET n == Len(quarterly_metrics)
             revenue == SumField(quarterly_metrics, "total_revenue", n)
         IN  [ok |-> TRUE, error |-> "",
              ltm |-> [NoLtm EXCEPT !.ltm_total_revenue = revenue,
                                    !.ltm_gross_profit =
                                        SumField(quarterly_metrics, "gross_profit", n)]]

\* quarterly_metrics is the list of the names of the input rows
calculate_ltm_metrics(quarterly_metrics) ==
    IF Len(quarterly_metrics) # 4
    THEN [ok |-> FALSE, error |-> "LTM calculations require exactly 4 quarters of data",
          ltm |-> NoLtm]
    ELSE LET n == Len(quarterly_metrics)
             ltm_total_revenue == SumField(quarterly_metrics, "total_revenue", n)
             ltm_gross_profit == SumField(quarterly_metrics, "gross_profit", n)
             ltm_sales_marketing_expense ==
                 SumField(quarterly_metrics, "sales_marketing_expense", n)
             ltm_operating_expense ==
                 SumField(quarterly_metrics, "total_operating_expense", n)
             ltm_ebitda == SumField(quarterly_metrics, "ebitda", n)
             ltm_net_income == SumField(quarterly_metrics, "net_income", n)
         IN  [ok |-> TRUE, error |-> "",
              ltm |-> [ltm_total_revenue |-> ltm_total_revenue,
                       ltm_gross_profit |-> ltm_gross_profit,
                       ltm_sales_marketing_expense |-> ltm_sales_marketing_expense,
                       ltm_gross_margin |->
                           calculate_percentage_of_revenue(ltm_gross_profit, ltm_total_revenue),
                       ltm_operating_expense |-> ltm_operating_expense,
                       ltm_ebitda |-> ltm_ebitda,
                       ltm_net_income |-> ltm_net_income,
                       ltm_ebitda_margin |->
                           calculate_percentage_of_revenue(ltm_ebitda, ltm_total_revenue),
                       ltm_net_income_margin |->
                           calculate_percentage_of_revenue(ltm_net_income, ltm_total_revenue)]]

(***************************************************************************)
(* data_transformation.py                                                  *)
(***************************************************************************)
\* faulty variant of the field loop's pass: a conversion that raises is
\* caught and the field is left null
convert_field_swallow(st, row, target, field, resps) ==
    LET source_value == row.values[field]
    IN  IF source_value = None
        THEN [st EXCEPT !.entry[field] = None]
        ELSE LET c == convert_currency(st.rates, st.lru, source_value.v,
                                       Key(row.currency, target, row.fiscal_reporting_date),
                                       resps[st.fetches + 1])
             IN  [ok |-> TRUE,
                  entry |-> [st.entry EXCEPT ![field] = IF c.ok THEN Dec(c.amount) ELSE None],
                  rates |-> c.rates, lru |-> c.lru,
                  lookups |-> st.lookups + c.lookups, fetches |-> st.fetches + c.fetches,
                  failed |-> st.failed + (IF c.ok THEN 0 ELSE 1)]

\* one pass of the field loop of convert_financials (lines 110-115); st is
\* the state reached so far: the entry being filled, the rate cache, and the
\* numbers of rate lookups made, of external requests made and of lookups
\* that raised
convert_field(st, row, target, field, resps) ==
    LET source_value == row.values[field]
    IN  IF source_value = None
        THEN [st EXCEPT !.entry[field] = None]
        ELSE LET c == convert_currency(st.rates, st.lru, source_value.v,
                                       Key(row.currency, target, row.fiscal_reporting_date),
                                       resps[st.fetches + 1])
             IN  [ok |-> c.ok,
                  entry |-> IF c.ok THEN [st.entry EXCEPT ![field] = Dec(c.amount)]
                            ELSE st.entry,
                  rates |-> c.rates, lru |-> c.lru,
                  lookups |-> st.lookups + c.lookups, fetches |-> st.fetches + c.fetches,
                  failed |-> st.failed + (IF c.ok THEN 0 ELSE 1)]

\* the field loop (lines 108-115) from field number n on; it ends at the
\* first conversion that raises
RECURSIVE convert_fields(_, _, _, _, _)
convert_fields(st, row, target, n, resps) ==
    IF n > Len(MonetaryFields) \/ ~st.ok
    THEN st
    ELSE convert_fields(convert_field(st, row, target, MonetaryFields[n], resps),
                        row, target, n + 1, resps)

\* lines 117-119: the rate recorded for the target currency
rate_used(st, row, target, resps) ==
    LET g == get_exchange_rate(st.rates, st.lru,
                               Key(row.currency, target, row.fiscal_reporting_date),
                               resps[st.fetches + 1])
    IN  [ok |-> g.ok,
         entry |-> IF g.ok THEN [st.entry EXCEPT !["exchange_rate_used"] = Dec(g.rate)]
                   ELSE st.entry,
         rates |-> g.rates, lru |-> g.lru,
         lookups |-> st.lookups + 1, fetches |-> st.fetches + g.fetches,
         failed |-> st.failed + (IF g.ok THEN 0 ELSE 1)]

\* the else branch of convert_financials (lines 122-125): the source values
\* and the rate 1.0
native_entry(row) ==
    [n \in EntryNames |-> IF n = "exchange_rate_used" THEN Dec(100) ELSE row.values[n]]

\* the body of the target loop of convert_financials (lines 105-125)
convert_target(rates, cache, row, target, resps) ==
    LET st0 == [ok |-> TRUE, entry |-> EmptyEntry, rates |-> rates, lru |-> cache,
                lookups |-> 0, fetches |-> 0, failed |-> 0]
    IN  IF target # row.currency
        THEN LET st == convert_fields(st0, row, target, 1, resps)
             IN  IF st.ok THEN rate_used(st, row, target, resps) ELSE st
        ELSE [st0 EXCEPT !.entry = native_entry(row)]

\* the keys of converted_financials in dict order: the native currency
\* (line 100), then the targets that differ from it
converted_order(currency) ==
    <<currency>> \o SelectSeq(target_currencies, LAMBDA t : t # currency)

\* faulty variant of the query: it never finds a row
existing_financials_never(table, period, currency) ==
    {r \in table : FALSE}

\* the query of update_reporting_financials (lines 146-153)
existing_financials(table, period, currency) ==
    {r \in table : /\ r.company_id = period[1]
                   /\ r.currency = currency
                   /\ r.reporting_year = period[2]
                   /\ r.reporting_quarter = period[3]}

\* the object the session hands out for a committed row: the tracked object,
\* with the attribute values set on it earlier if it was loaded before
tracked(dirty, r) ==
    IF \E d \in dirty : d.id = r.id THEN CHOOSE d \in dirty : d.id = r.id ELSE r

\* lines 158-159: setattr for every item of the converted dict
overwrite(r, entry) ==
    [r EXCEPT !.fields = [n \in EntryNames |->
                             IF entry[n] = Absent THEN r.fields[n] ELSE entry[n]]]

\* lines 163-169: a new ReportingFinancials from the key and the dict items;
\* the constructor leaves the update stamp empty (reporting_financials.py
\* lines 101-102)
new_financials(id, period, currency, entry) ==
    [id |-> id, company_id |-> period[1], currency |-> currency,
     reporting_year |-> period[2], reporting_quarter |-> period[3],
     fields |-> [n \in EntryNames |-> IF entry[n] = Absent THEN None ELSE entry[n]],
     last_update_date |-> None, last_updated_by |-> None]

\* datetime.utcnow() of the column's onupdate
UtcNow == [kind |-> "datetime", v |-> 0]

\* the UPDATE the flush emits for a tracked row whose attribute values
\* differ from the stored ones: last_update_date has onupdate=datetime.utcnow
flush_update(r, d) ==
    IF d = r THEN r ELSE [d EXCEPT !.last_update_date = UtcNow]

\* db_session.commit(): the attribute changes of the tracked rows and the
\* added rows reach the table
commit_financials(table, dirty, added) ==
    {flush_update(r, tracked(dirty, r)) : r \in table} \cup added

(***************************************************************************)
(* Stand-alone rate calls                                                  *)
(***************************************************************************)
NoCall == [op |-> "none", key |-> Key("USD", "USD", 1), amount |-> 0, ok |-> TRUE,
           result |-> 0, lookups |-> 0, fetches |-> 0, resp |-> "none", seq |-> 0,
           rate |-> 0]

\* the answers of the external source to the requests one target currency
\* can cause (one per field and one for the recorded rate): a first answer
\* and the answer to every further request
MaxRequests == Len(MonetaryFields) + 1

\* the three ways a request fails are told apart by _fetch_exchange_rate
\* only in the message; the transformation is run with one of them
TransformResponses == {r \in Responses : r.kind \in {"ok", "request_error"}}

ResponseRuns ==
    {[n \in 1..MaxRequests |-> IF n = 1 THEN a ELSE b] : a, b \in TransformResponses}

NoEntry == [present |-> FALSE, entry |-> EmptyEntry]

NoRow == [id |-> 0, company_id |-> "c1", currency |-> "USD", reporting_year |-> 0,
          reporting_quarter |-> 0, fields |-> [n \in EntryNames |-> None],
          last_update_date |-> None, last_updated_by |-> None]

NoObject == [kind |-> "none", row |-> NoRow]

NoMetrics == [id |-> 0, company_id |-> "c1", reporting_year |-> 0, reporting_quarter |-> 0,
              values |-> DerivedValues(InputRow("usd1"))]

NoInv == [period |-> <<"c1", 0, 0>>, input_metrics |-> "none", t |-> 1, f |-> 1, u |-> 1,
          converted_financials |-> [c \in AllCurrencies |-> NoEntry],
          objects |-> [c \in AllCurrencies |-> NoObject],
          metrics |-> NoMetrics, lookups |-> 0, fetches |-> 0, rate_failures |-> 0,
          derive_input |-> "unqueried",
          error |-> "", failed_at |-> "", returned |-> NoObject]

\* rows an earlier process committed for the first period from the input
\* usd1 at the rate 1.25 (the tables outlive the process, the rate cache
\* does not)
SeedPeriod == <<"c1", 2023, 1>>

SeedConverted ==
    convert_target(<< >>, << >>, InputRow("usd1"), "CAD",
                   [n \in 1..MaxRequests |-> [kind |-> "ok", rate |-> 125]]).entry

SeedFinancials ==
    {new_financials(1, SeedPeriod, "USD", native_entry(InputRow("usd1"))),
     new_financials(2, SeedPeriod, "CAD", SeedConverted)}

SeedMetrics ==
    calculate_derived_metrics([p \in Periods |-> "usd1"], 3, SeedPeriod).metrics

NoStart == [financials |-> {}, metrics |-> {}, dirty |-> {}]

NoPrev == [ok |-> FALSE, period |-> <<"c1", 0, 0>>, input_metrics |-> "none",
           converted_financials |-> [c \in AllCurrencies |-> NoEntry],
           financials |-> {}, metrics |-> {}]

\* the quarters of the metrics_input table a stand-alone
\* calculate_derived_metrics call can find rows for
HistoryPeriods == {<<"c1", 2023, q>> : q \in 1..4}

NoCalc == [op |-> "none", x |-> 0, y |-> 0, quarters |-> << >>,
           table |-> [p \in HistoryPeriods |-> "none"], period |-> <<"c1", 2023, 1>>,
           ok |-> TRUE, value |-> 0, ltm |-> NoLtm, metrics |-> NoMetrics]

(***************************************************************************)
(* utils/rate_limiter.py                                                   *)
(***************************************************************************)
\* settings.RATE_LIMIT_TOKENS, scaled down
RATE_LIMIT_TOKENS == 2

\* tokens are floats; they are counted here in halves of a token
TokenUnit == 2

\* settings.RATE_LIMIT_REFRESH_RATE: half a token per tick of the clock
RATE_LIMIT_REFRESH_RATE == 1

\* ticks of time.time() and requests examined
MaxTime == 3

MaxArrivals == 4

Min(a, b) == IF a < b THEN a ELSE b

\* RateLimiter.__init__ at the time now
RateLimiter(tokens, refresh_rate, now) ==
    [tokens |-> tokens * TokenUnit, max_tokens |-> tokens * TokenUnit,
     refresh_rate |-> refresh_rate, last_refresh |-> now]

\* RateLimiter.get_tokens at the time now: the refreshed object; its tokens
\* field is the value returned
get_tokens(self, now) ==
    [self EXCEPT !.tokens = Min(self.tokens + (now - self.last_refresh) * self.refresh_rate,
                                self.max_tokens),
                 !.last_refresh = now]

\* RateLimiter.acquire at the time now
acquire(self, now) ==
    LET refreshed == get_tokens(self, now)
    IN  IF refreshed.tokens >= TokenUnit
        THEN [ok |-> TRUE, self |-> [refreshed EXCEPT !.tokens = @ - TokenUnit]]
        ELSE [ok |-> FALSE, self |-> refreshed]

\* create_rate_limiter: configured tells whether the settings carry
\* RATE_LIMIT_TOKENS and RATE_LIMIT_REFRESH_RATE (line 83)
create_rate_limiter(configured, now) ==
    [ok |-> configured,
     limiter |-> RateLimiter(RATE_LIMIT_TOKENS, RATE_LIMIT_REFRESH_RATE, now)]

\* a process at time 0: a RateLimiter object of its own (for the direct
\* calls), no request seen; burst counts the requests that reached acquire
\* since the clock last advanced
NoGate == [now |-> 0, bucket |-> RateLimiter(RATE_LIMIT_TOKENS, RATE_LIMIT_REFRESH_RATE, 0),
           arrivals |-> 0, burst |-> 0, burst_rejected |-> 0, status |-> 0, remaining |-> 0]

\* threads that call get_exchange_rate
MaxThreads == 3

Threads == 1..MaxThreads

\* a thread that has not called yet
NoCaller == [pc |-> "idle", key |-> Key("USD", "USD", 1), rate |-> 0, fetched |-> FALSE]

\* no update_exchange_rates call yet
NoUpdate == [called |-> FALSE, reporting_currencies |-> << >>, ok |-> TRUE, error |-> "",
             lookups |-> << >>, fetches |-> 0]

\* no invocation of another worker yet
NoPeer == [pc |-> "idle", period |-> <<"c1", 0, 0>>, input_metrics |-> "none",
           found |-> [c \in AllCurrencies |-> 0],
           converted_financials |-> [c \in AllCurrencies |-> NoEntry]]

\* a started process: empty rate cache, a new session, no invocation yet
InitProcess ==
    /\ exchange_rates = << >>
    /\ lru = << >>
    /\ fetchCount = [k \in Keys |-> 0]
    /\ fetchedOk = {}
    /\ firstStored = << >>
    /\ calls = 0
    /\ lastCall = NoCall
    /\ input_changes = 0
    /\ session_dirty = {}
    /\ calc = NoCalc
    /\ peer = NoPeer
    /\ upd = NoUpdate
    /\ callers = [i \in Threads |-> NoCaller]
    /\ gate = NoGate
    /\ runs = 0
    /\ pc = "idle"
    /\ inv = NoInv
    /\ trace = << >>
    /\ start = NoStart
    /\ prev = NoPrev

\* the process over an empty database
Init ==
    /\ InitProcess
    /\ metrics_input = [p \in Periods |-> "none"]
    /\ reporting_financials = {}
    /\ reporting_metrics = {}
    /\ next_id = 1

\* the process over a database that holds any input rows and either no
\* reporting rows or those of the earlier run
InitStored ==
    /\ InitProcess
    /\ metrics_input \in [Periods -> InputNames \cup {"none"}]
    /\ \/ /\ reporting_financials = {}
          /\ reporting_metrics = {}
          /\ next_id = 1
       \/ /\ reporting_financials = SeedFinancials
          /\ reporting_metrics = {SeedMetrics}
          /\ next_id = 4

Bump(k, g) ==
    /\ fetchCount' = [fetchCount EXCEPT ![k] = @ + g.fetches]
    /\ fetchedOk' = IF g.fetches = 1 /\ g.ok THEN fetchedOk \cup {k} ELSE fetchedOk
    /\ firstStored' = IF k \in DOMAIN firstStored \/ k \notin DOMAIN g.rates
                      THEN firstStored
                      ELSE DictStore(firstStored, k, g.rates[k])

GetExchangeRate(k, resp) ==
    /\ calls < MaxCalls
    /\ LET g == get_exchange_rate(exchange_rates, lru, k, resp)
       IN  /\ exchange_rates' = g.rates
           /\ lru' = g.lru
           /\ Bump(k, g)
           /\ calls' = calls + 1
           /\ lastCall' = [op |-> "get_exchange_rate", key |-> k, amount |-> 0,
                           ok |-> g.ok, result |-> g.rate, lookups |-> 1,
                           fetches |-> g.fetches, resp |-> resp.kind, seq |-> calls + 1,
                           rate |-> g.rate]
    /\ UNCHANGED <<transformVars, calc, extVars>>

ConvertCurrency(amount, k, resp) ==
    /\ calls < MaxCalls
    /\ LET c == convert_currency(exchange_rates, lru, amount, k, resp)
       IN  /\ exchange_rates' = c.rates
           /\ lru' = c.lru
           /\ Bump(k, c)
           /\ calls' = calls + 1
           /\ lastCall' = [op |-> "convert_currency", key |-> k, amount |-> amount,
                           ok |-> c.ok, result |-> c.amount, lookups |-> c.lookups,
                           fetches |-> c.fetches, resp |-> resp.kind, seq |-> calls + 1,
                           rate |-> c.rate]
    /\ UNCHANGED <<transformVars, calc, extVars>>

RateNext ==
    \/ \E k \in Keys, resp \in Responses : GetExchangeRate(k, resp)
    \/ \E a \in Amounts, k \in Keys, resp \in Responses : ConvertCurrency(a, k, resp)

SpecRate == Init /\ [][RateNext]_vars

(***************************************************************************)
(* get_exchange_rate called from several threads                           *)
(***************************************************************************)
\* the keys the threads ask for
OverlapKeys == {Key("USD", "CAD", 1), Key("CAD", "USD", 1)}

\* the answers of the external source: non-zero rates, or a failed request
OverlapResponses ==
    [kind : {"ok"}, rate : {125, 130}] \cup [kind : {"request_error"}, rate : {0}]

\* functools.lru_cache storing the result of a call that missed: when
\* another thread stored the key in the meantime, the entry is kept
LruStoreIfAbsent(cache, k, v) ==
    IF LruIndex(cache, k) # 0 THEN cache ELSE LruStore(cache, k, v)

\* the call up to line 53: the lru_cache lookup and the dict lookup of the
\* body; the function holds no lock
CallerCheck(i, k) ==
    /\ callers[i].pc = "idle"
    /\ LET n == LruIndex(lru, k)
           c == [NoCaller EXCEPT !.key = k]
       IN  IF n # 0
           THEN /\ callers' = [callers EXCEPT ![i] =
                                  [c EXCEPT !.pc = "returned", !.rate = lru[n].value]]
                /\ lru' = LruTouch(lru, n)
           ELSE IF DictHit(exchange_rates, k)
           THEN /\ callers' = [callers EXCEPT ![i] =
                                  [c EXCEPT !.pc = "returned", !.rate = exchange_rates[k]]]
                /\ lru' = LruStoreIfAbsent(lru, k, exchange_rates[k])
           ELSE /\ callers' = [callers EXCEPT ![i] = [c EXCEPT !.pc = "fetch"]]
                /\ UNCHANGED lru
    /\ UNCHANGED <<exchange_rates, rateGhostVars, transformVars, calc, peer, upd, gate>>

\* line 56: the blocking request of _fetch_exchange_rate
CallerFetch(i, resp) ==
    /\ callers[i].pc = "fetch"
    /\ LET f == _fetch_exchange_rate(resp)
       IN  callers' = [callers EXCEPT ![i] =
                          IF f.ok
                          THEN [@ EXCEPT !.pc = "store", !.rate = f.rate, !.fetched = TRUE]
                          ELSE [@ EXCEPT !.pc = "raised"]]
    /\ UNCHANGED <<cacheVars, rateGhostVars, transformVars, calc, peer, upd, gate>>

\* lines 59-65: the store into exchange_rates, the return, and the
\* lru_cache keeping the result
CallerStore(i) ==
    /\ callers[i].pc = "store"
    /\ exchange_rates' = DictStore(exchange_rates, callers[i].key, callers[i].rate)
    /\ lru' = LruStoreIfAbsent(lru, callers[i].key, callers[i].rate)
    /\ callers' = [callers EXCEPT ![i].pc = "returned"]
    /\ UNCHANGED <<rateGhostVars, transformVars, calc, peer, upd, gate>>

OverlapNext ==
    \/ \E i \in Threads, k \in OverlapKeys : CallerCheck(i, k)
    \/ \E i \in Threads, resp \in OverlapResponses : CallerFetch(i, resp)
    \/ \E i \in Threads : CallerStore(i)

SpecOverlap == Init /\ [][OverlapNext]_vars

(***************************************************************************)
(* The rate limiter and its middleware                                     *)
(***************************************************************************)
\* time.time() advances
Tick ==
    /\ gate.now < MaxTime
    /\ gate' = [gate EXCEPT !.now = @ + 1, !.burst = 0, !.burst_rejected = 0]
    /\ UNCHANGED <<rateVars, transformVars, calc, peer, upd, callers>>

\* a direct call of get_tokens on the RateLimiter object
GetTokens ==
    /\ gate' = [gate EXCEPT !.bucket = get_tokens(gate.bucket, gate.now)]
    /\ gate'.bucket # gate.bucket
    /\ UNCHANGED <<rateVars, transformVars, calc, peer, upd, callers>>

\* a direct call of acquire on the RateLimiter object
Acquire ==
    /\ gate' = [gate EXCEPT !.bucket = acquire(gate.bucket, gate.now).self]
    /\ gate'.bucket # gate.bucket
    /\ UNCHANGED <<rateVars, transformVars, calc, peer, upd, callers>>

\* rate_limit_middleware for one request (lines 102-115): the status of the
\* response (500 for the ValueError of create_rate_limiter) and the
\* X-RateLimit-Remaining header
RateLimitMiddleware(configured) ==
    /\ gate.arrivals < MaxArrivals
    /\ LET c == create_rate_limiter(configured, gate.now)
           a == acquire(c.limiter, gate.now)
       IN  gate' = IF ~c.ok
                   THEN [gate EXCEPT !.arrivals = @ + 1, !.status = 500, !.remaining = 0]
                   ELSE IF ~a.ok
                   THEN [gate EXCEPT !.arrivals = @ + 1, !.burst = @ + 1,
                                     !.burst_rejected = @ + 1,
                                     !.status = 429, !.remaining = 0]
                   ELSE [gate EXCEPT !.arrivals = @ + 1, !.burst = @ + 1,
                                     !.status = 200,
                                     !.remaining = get_tokens(a.self, gate.now).tokens
                                                       \div TokenUnit]
    /\ UNCHANGED <<rateVars, transformVars, calc, peer, upd, callers>>

LimiterNext ==
    \/ Tick
    \/ GetTokens
    \/ Acquire
    \/ \E configured \in BOOLEAN : RateLimitMiddleware(configured)

SpecLimiter == Init /\ [][LimiterNext]_vars

(***************************************************************************)
(* update_exchange_rates                                                   *)
(***************************************************************************)
\* date.today() of the update
Today == 1

\* lines 111-118: the get_exchange_rate calls the loop and the statement
\* after it make for the currencies from number n on, in order
RECURSIVE update_calls(_, _)
update_calls(reporting_currencies, n) ==
    IF n > Len(reporting_currencies)
    THEN <<Key("USD", "CAD", Today)>>
    ELSE LET currency == reporting_currencies[n]
         IN  (IF currency # "USD" THEN <<Key(currency, "USD", Today)>> ELSE << >>)
             \o (IF currency # "CAD" THEN <<Key(currency, "CAD", Today)>> ELSE << >>)
             \o update_calls(reporting_currencies, n + 1)

\* the calls from number n on, made on the cache state st; the first call
\* that raises ends them
RECURSIVE update_run(_, _, _, _)
update_run(st, todo, n, resps) ==
    IF n > Len(todo) \/ ~st.ok
    THEN st
    ELSE LET g == get_exchange_rate(st.rates, st.lru, todo[n], resps[st.fetches + 1])
         IN  update_run([ok |-> g.ok, rates |-> g.rates, lru |-> g.lru,
                         lookups |-> Append(st.lookups, todo[n]),
                         fetches |-> st.fetches + g.fetches],
                        todo, n + 1, resps)

\* update_exchange_rates (lines 92-123): db_ok tells whether the query for
\* the distinct reporting currencies succeeds, reporting_currencies is its
\* result, resps are the answers of the external source, in order
update_exchange_rates(rates, cache, db_ok, reporting_currencies, resps) ==
    LET st0 == [ok |-> TRUE, rates |-> rates, lru |-> cache, lookups |-> << >>, fetches |-> 0]
        st == IF db_ok
              THEN update_run(st0, update_calls(reporting_currencies, 1), 1, resps)
              ELSE [st0 EXCEPT !.ok = FALSE]
    IN  [ok |-> st.ok,
         error |-> IF st.ok THEN "" ELSE "Failed to update exchange rates",
         rates |-> st.rates, lru |-> st.lru, lookups |-> st.lookups, fetches |-> st.fetches]

\* the results of SELECT DISTINCT reporting_currency: every list of
\* different currencies
CurrencyLists ==
    {cs \in UNION {[1..n -> AllCurrencies] : n \in 0..Cardinality(AllCurrencies)} :
        \A i, j \in 1..Len(cs) : i # j => cs[i] # cs[j]}

UpdateExchangeRates(db_ok, reporting_currencies, resps) ==
    /\ ~upd.called
    /\ LET u == update_exchange_rates(exchange_rates, lru, db_ok, reporting_currencies, resps)
       IN  /\ exchange_rates' = u.rates
           /\ lru' = u.lru
           /\ upd' = [called |-> TRUE, reporting_currencies |-> reporting_currencies,
                      ok |-> u.ok, error |-> u.error, lookups |-> u.lookups,
                      fetches |-> u.fetches]
    /\ UNCHANGED <<rateGhostVars, transformVars, calc, peer, callers, gate>>

UpdateNext ==
    \E db_ok \in BOOLEAN, cs \in CurrencyLists, resps \in ResponseRuns :
        UpdateExchangeRates(db_ok, cs, resps)

SpecUpdate == Init /\ [][UpdateNext]_vars

(***************************************************************************)
(* transform_data, step by step                                            *)
(***************************************************************************)
\* number of transform_data invocations on the service
MaxRuns == 2

\* number of changes the intake makes to the input rows
MaxInputChanges == 1

Fail(where, message) ==
    /\ pc' = "failed"
    /\ inv' = [inv EXCEPT !.error = message, !.failed_at = where]

\* a caller invokes transform_data(company_id, reporting_year, reporting_quarter)
StartTransform(p) ==
    /\ pc \in {"idle", "done", "failed"}
    /\ runs < MaxRuns
    /\ runs' = runs + 1
    /\ pc' = "load"
    /\ inv' = [NoInv EXCEPT !.period = p]
    /\ trace' = << >>
    /\ start' = [financials |-> reporting_financials, metrics |-> reporting_metrics,
                 dirty |-> session_dirty]
    /\ prev' = IF pc = "done"
               THEN [ok |-> TRUE, period |-> inv.period, input_metrics |-> inv.input_metrics,
                     converted_financials |-> inv.converted_financials,
                     financials |-> reporting_financials, metrics |-> reporting_metrics]
               ELSE NoPrev
    /\ UNCHANGED <<metrics_input, reporting_financials, reporting_metrics, session_dirty,
                   next_id, input_changes, cacheVars, rateGhostVars, calc, extVars>>

\* lines 56-67: the query for the input row
LoadInput ==
    /\ pc = "load"
    /\ trace' = Append(trace, "load")
    /\ IF metrics_input[inv.period] = "none"
       THEN Fail("load", "No input metrics found")
       ELSE /\ pc' = "fanout"
            /\ inv' = [inv EXCEPT
                   !.input_metrics = metrics_input[inv.period],
                   !.converted_financials[InputRow(metrics_input[inv.period]).currency] =
                       [present |-> TRUE, entry |-> EmptyEntry]]
    /\ UNCHANGED <<metrics_input, reporting_financials, reporting_metrics, session_dirty,
                   next_id, runs, start, prev, input_changes, cacheVars, rateGhostVars, calc, extVars>>

AfterFanOut(i) == IF i.t > Len(target_currencies) THEN "upsert" ELSE "fanout"

\* lines 104-125: one pass of the target loop of convert_financials; resps
\* are the answers the external source gives to the requests of this pass,
\* in order
FanOut(resps) ==
    /\ pc = "fanout"
    /\ LET row == InputRow(inv.input_metrics)
           target == target_currencies[inv.t]
           c == convert_target(exchange_rates, lru, row, target, resps)
           i == [inv EXCEPT !.converted_financials[target] =
                                [present |-> TRUE, entry |-> c.entry],
                            !.lookups = @ + c.lookups,
                            !.fetches = @ + c.fetches,
                            !.rate_failures = @ + c.failed,
                            !.t = @ + 1]
       IN  /\ exchange_rates' = c.rates
           /\ lru' = c.lru
           /\ IF c.ok
              THEN /\ inv' = i
                   /\ pc' = AfterFanOut(i)
                   /\ trace' = Append(trace, IF target = row.currency
                                             THEN "copy_native" ELSE "convert")
              ELSE /\ inv' = [i EXCEPT !.error = "rate unavailable", !.failed_at = "fanout",
                                       !.t = inv.t]
                   /\ pc' = "failed"
                   /\ trace' = Append(trace, "rate_unavailable")
    /\ UNCHANGED <<metrics_input, reporting_financials, reporting_metrics, session_dirty,
                   next_id, runs, start, prev, input_changes, rateGhostVars, calc, extVars>>

\* uuid.uuid4() in the constructors: an id no committed row and no object of
\* this invocation has
FreshId == next_id + Cardinality({c \in AllCurrencies : inv.objects[c].kind = "new"})

\* lines 145-170: one pass of the loop of update_reporting_financials
Upsert ==
    /\ pc = "upsert"
    /\ LET order == converted_order(InputRow(inv.input_metrics).currency)
           currency == order[inv.u]
           entry == inv.converted_financials[currency].entry
           found == existing_financials(reporting_financials, inv.period, currency)
           last == inv.u = Len(order)
       IN  /\ trace' = Append(trace, "upsert_lookup")
           /\ IF Cardinality(found) > 1
              THEN /\ Fail("upsert", "MultipleResultsFound")
                   /\ UNCHANGED <<session_dirty, next_id>>
              ELSE IF Cardinality(found) = 1
              THEN LET r == tracked(session_dirty, CHOOSE x \in found : TRUE)
                       w == overwrite(r, entry)
                   IN  /\ session_dirty' = {d \in session_dirty : d.id # w.id} \cup {w}
                       /\ inv' = [inv EXCEPT !.objects[currency] =
                                                 [kind |-> "existing", row |-> w],
                                             !.u = @ + 1]
                       /\ pc' = IF last THEN "metrics" ELSE "upsert"
                       /\ UNCHANGED next_id
              ELSE /\ inv' = [inv EXCEPT
                          !.objects[currency] =
                              [kind |-> "new",
                               row |-> new_financials(FreshId, inv.period, currency, entry)],
                          !.u = @ + 1]
                   /\ pc' = IF last THEN "metrics" ELSE "upsert"
                   /\ UNCHANGED <<session_dirty, next_id>>
    /\ UNCHANGED <<metrics_input, reporting_financials, reporting_metrics,
                   runs, start, prev, input_changes, cacheVars, rateGhostVars, calc, extVars>>

\* faulty variant: the financial rows are committed before the metrics are
\* derived
DeriveMetrics_commit_first ==
    /\ pc = "metrics"
    /\ LET m == calculate_derived_metrics(metrics_input, FreshId, inv.period)
           added == {inv.objects[c].row :
                        c \in {x \in AllCurrencies : inv.objects[x].kind = "new"}}
       IN  /\ trace' = trace \o <<"commit", "derive_metrics">>
           /\ reporting_financials' =
                  commit_financials(reporting_financials, session_dirty, added)
           /\ session_dirty' = {}
           /\ IF m.ok
              THEN /\ inv' = [inv EXCEPT !.metrics = m.metrics,
                                         !.derive_input = metrics_input[inv.period]]
                   /\ pc' = "save"
              ELSE /\ pc' = "failed"
                   /\ inv' = [inv EXCEPT !.error = m.error, !.failed_at = "metrics",
                                         !.derive_input = metrics_input[inv.period]]
    /\ UNCHANGED <<metrics_input, reporting_metrics, next_id, runs, start, prev,
                   input_changes, cacheVars, rateGhostVars, calc, extVars>>

\* line 77: calculate_derived_metrics
DeriveMetrics ==
    /\ pc = "metrics"
    /\ LET m == calculate_derived_metrics(metrics_input, FreshId, inv.period)
       IN  /\ trace' = Append(trace, "derive_metrics")
           /\ IF m.ok
              THEN /\ inv' = [inv EXCEPT !.metrics = m.metrics,
                                         !.derive_input = metrics_input[inv.period]]
                   /\ pc' = "save"
              ELSE /\ pc' = "failed"
                   /\ inv' = [inv EXCEPT !.error = m.error, !.failed_at = "metrics",
                                         !.derive_input = metrics_input[inv.period]]
    /\ UNCHANGED <<metrics_input, reporting_financials, reporting_metrics, session_dirty,
                   next_id, runs, start, prev, input_changes, cacheVars, rateGhostVars, calc, extVars>>

\* lines 80-87: the adds, the commit and the return
Save ==
    /\ pc = "save"
    /\ LET added == {inv.objects[c].row : c \in {x \in AllCurrencies : inv.objects[x].kind = "new"}}
       IN  /\ reporting_financials' = commit_financials(reporting_financials, session_dirty, added)
           /\ reporting_metrics' = reporting_metrics \cup {inv.metrics}
    /\ session_dirty' = {}
    /\ next_id' = FreshId + 1
    /\ trace' = trace \o <<"add", "commit">>
    /\ pc' = "done"
    /\ inv' = [inv EXCEPT !.returned = inv.objects[InputRow(inv.input_metrics).currency]]
    /\ UNCHANGED <<metrics_input, runs, start, prev, input_changes, cacheVars, rateGhostVars, calc, extVars>>

\* the intake stores, corrects or removes the input row of a period (the
\* CRUD layer); it can run between invocations and while transform_data
\* awaits the database
SetInput(p, name) ==
    /\ pc \in {"idle", "done", "failed", "metrics"}
    /\ input_changes < MaxInputChanges
    /\ input_changes' = input_changes + 1
    /\ metrics_input[p] # name
    /\ metrics_input' = [metrics_input EXCEPT ![p] = name]
    /\ UNCHANGED <<reporting_financials, reporting_metrics, session_dirty, next_id, runs,
                   pc, inv, trace, start, prev, cacheVars, rateGhostVars, calc, extVars>>

TransformNext ==
    \/ \E p \in Periods : StartTransform(p)
    \/ LoadInput
    \/ \E resps \in ResponseRuns : FanOut(resps)
    \/ Upsert
    \/ DeriveMetrics
    \/ Save
    \/ \E p \in Periods, name \in InputNames \cup {"none"} : SetInput(p, name)

SpecTransform == InitStored /\ [][TransformNext]_vars

(***************************************************************************)
(* transform_data of another worker, overlapping the invocation above      *)
(***************************************************************************)
\* the ids uuid.uuid4() gives the other worker: different from every id of
\* this process
PeerId(n) == 0 - n

\* lines 56-74 and 145-153 in the other worker, for the period of the
\* invocation in flight here: the input row, the conversions (its own rate
\* cache is empty and its source answers every request with rate) and the
\* lookups of update_reporting_financials against the committed table
PeerLookup(rate) ==
    /\ peer.pc = "idle"
    /\ pc \in {"fanout", "upsert", "metrics", "save"}
    /\ metrics_input[inv.period] # "none"
    /\ LET row == InputRow(metrics_input[inv.period])
           resps == [n \in 1..MaxRequests |-> [kind |-> "ok", rate |-> rate]]
           keys == {c \in AllCurrencies :
                       \E i \in 1..Len(converted_order(row.currency)) :
                           converted_order(row.currency)[i] = c}
           rows(c) == existing_financials(reporting_financials, inv.period, c)
       IN  peer' = [pc |-> IF \E c \in keys : Cardinality(rows(c)) > 1
                          THEN "failed" ELSE "looked",
                    period |-> inv.period,
                    input_metrics |-> metrics_input[inv.period],
                    found |-> [c \in AllCurrencies |->
                                  IF c \in keys /\ Cardinality(rows(c)) = 1
                                  THEN (CHOOSE r \in rows(c) : TRUE).id ELSE 0],
                    converted_financials |->
                        [c \in AllCurrencies |->
                            IF c \notin keys THEN NoEntry
                            ELSE [present |-> TRUE,
                                  entry |-> IF \E i \in 1..Len(target_currencies) :
                                                   target_currencies[i] = c
                                            THEN convert_target(<< >>, << >>, row, c, resps).entry
                                            ELSE EmptyEntry]]]
    /\ UNCHANGED <<rateVars, transformVars, calc, upd, callers, gate>>

\* lines 155-170 and 77-85 in the other worker: the rows found are
\* overwritten, the others are new, a new metrics row is derived, and its
\* own session commits; the tables declare no constraint that refuses a row
\* (uq_company_date is on company_id and fiscal_reporting_date, and
\* quarterly_reporting_metrics declares none)
PeerCommit ==
    /\ peer.pc = "looked"
    /\ LET order == converted_order(InputRow(peer.input_metrics).currency)
           m == calculate_derived_metrics(metrics_input, PeerId(Len(order) + 1), peer.period)
           updated == {IF \E c \in AllCurrencies : peer.found[c] = r.id
                       THEN flush_update(r, overwrite(r, peer.converted_financials[
                                CHOOSE c \in AllCurrencies : peer.found[c] = r.id].entry))
                       ELSE r : r \in reporting_financials}
           added == {new_financials(PeerId(i), peer.period, order[i],
                                    peer.converted_financials[order[i]].entry) :
                        i \in {j \in 1..Len(order) : peer.found[order[j]] = 0}}
       IN  IF m.ok
           THEN /\ reporting_financials' = updated \cup added
                /\ reporting_metrics' = reporting_metrics \cup {m.metrics}
                /\ peer' = [peer EXCEPT !.pc = "done"]
           ELSE /\ peer' = [peer EXCEPT !.pc = "failed"]
                /\ UNCHANGED <<reporting_financials, reporting_metrics>>
    /\ UNCHANGED <<rateVars, metrics_input, session_dirty, next_id, runs, pc, inv, trace,
                   start, prev, input_changes, calc, upd, callers, gate>>

PeerNext ==
    \/ \E rate \in Rates \ {0} : PeerLookup(rate)
    \/ PeerCommit

\* the steps of the invocation here, the input rows staying as they are
InvocationNext ==
    \/ \E p \in Periods : StartTransform(p)
    \/ LoadInput
    \/ \E resps \in ResponseRuns : FanOut(resps)
    \/ Upsert
    \/ DeriveMetrics
    \/ Save

\* two workers over one database
SpecConcurrent == InitStored /\ [][InvocationNext \/ PeerNext]_vars

(***************************************************************************)
(* Stand-alone calls of the MetricsCalculationService methods              *)
(***************************************************************************)
\* longest list passed to calculate_ltm_metrics
MaxQuarters == 5

\* numerators (cents, or a head count) and denominators of the ratio helpers
Numerators == {-250, 0, 150, 1000}

Denominators == {-250, 0, 3, 1000}

\* the input rows of the stand-alone calls: those of the transformation,
\* one with no revenue, no employees and no cash burn, and the row of
\* test_calculate_derived_metrics with its amounts divided by 10000
HistoryNames == InputNames \cup {"zero1", "example1"}

QuarterLists == UNION {[1..n -> HistoryNames] : n \in 0..MaxQuarters}

HistoryTables == [HistoryPeriods -> HistoryNames \cup {"none"}]

\* the methods are static and keep no state: a call does not depend on the
\* calls made before it, so one call per behaviour is examined
PercentageOfRevenue(x, y) ==
    /\ calc = NoCalc
    /\ calc' = [NoCalc EXCEPT !.op = "calculate_percentage_of_revenue", !.x = x, !.y = y,
                              !.value = calculate_percentage_of_revenue(x, y)]
    /\ UNCHANGED <<rateVars, transformVars, extVars>>

PerFte(x, y) ==
    /\ calc = NoCalc
    /\ calc' = [NoCalc EXCEPT !.op = "calculate_per_fte", !.x = x, !.y = y,
                              !.value = calculate_per_fte(x, y)]
    /\ UNCHANGED <<rateVars, transformVars, extVars>>

GrowthRate(x, y) ==
    /\ calc = NoCalc
    /\ calc' = [NoCalc EXCEPT !.op = "calculate_growth_rate", !.x = x, !.y = y,
                              !.value = calculate_growth_rate(x, y)]
    /\ UNCHANGED <<rateVars, transformVars, extVars>>

RunwayMonths(x, y) ==
    /\ calc = NoCalc
    /\ calc' = [NoCalc EXCEPT !.op = "calculate_runway_months", !.x = x, !.y = y,
                              !.value = calculate_runway_months(x, y)]
    /\ UNCHANGED <<rateVars, transformVars, extVars>>

LtmMetrics(quarterly_metrics) ==
    /\ calc = NoCalc
    /\ LET r == calculate_ltm_metrics(quarterly_metrics)
       IN  calc' = [NoCalc EXCEPT !.op = "calculate_ltm_metrics",
                                  !.quarters = quarterly_metrics,
                                  !.ok = r.ok, !.ltm = r.ltm]
    /\ UNCHANGED <<rateVars, transformVars, extVars>>

\* calculate_derived_metrics(db, company_id, reporting_year, reporting_quarter)
\* on a database whose metrics_input table is table
DerivedMetrics(table, period) ==
    /\ calc = NoCalc
    /\ LET m == calculate_derived_metrics(table, next_id, period)
       IN  calc' = [NoCalc EXCEPT !.op = "calculate_derived_metrics",
                                  !.table = table, !.period = period,
                                  !.ok = m.ok,
                                  !.metrics = IF m.ok THEN m.metrics ELSE NoMetrics]
    /\ UNCHANGED <<rateVars, transformVars, extVars>>

MetricsNext ==
    \/ \E x \in Numerators, y \in Denominators : PercentageOfRevenue(x, y)
    \/ \E x \in Numerators, y \in Denominators : PerFte(x, y)
    \/ \E x \in Numerators, y \in Denominators : GrowthRate(x, y)
    \/ \E x \in Numerators, y \in Denominators : RunwayMonths(x, y)
    \/ \E quarterly_metrics \in QuarterLists : LtmMetrics(quarterly_metrics)
    \/ \E table \in HistoryTables, period \in HistoryPeriods : DerivedMetrics(table, period)

SpecMetrics == Init /\ [][MetricsNext]_vars

(***************************************************************************)
(* Claims about the rate cache and the converter (SpecRate)                *)
(***************************************************************************)
NewCall == lastCall'.seq # lastCall.seq

\* C1: once the external fetch for a key has succeeded, no later call for
\* that key invokes _fetch_exchange_rate again (at most one fetch per key).
C1_FetchAtMostOncePerKey ==
    [][\A k \in Keys : k \in fetchedOk => fetchCount'[k] = fetchCount[k]]_vars

\* C2: the exchange-rate cache only grows: a stored entry is never removed
\* nor replaced by a different value, and every later get_exchange_rate call
\* for the key returns the value first stored.
C2_CacheOnlyGrows ==
    [][/\ \A k \in DOMAIN exchange_rates :
             k \in DOMAIN exchange_rates' /\ exchange_rates'[k] = exchange_rates[k]
       /\ (NewCall /\ lastCall'.op = "get_exchange_rate"
            /\ lastCall'.key \in DOMAIN firstStored)
          => (lastCall'.ok /\ lastCall'.result = firstStored[lastCall'.key])]_vars

\* C3: convert_currency(amount, c, c, date) returns exactly amount, makes no
\* rate lookup and no external fetch, and leaves the rate cache unchanged.
C3_IdentityConversion ==
    [][(NewCall /\ lastCall'.op = "convert_currency"
         /\ lastCall'.key.from_currency = lastCall'.key.to_currency)
       => /\ lastCall'.ok
          /\ lastCall'.result = lastCall'.amount
          /\ lastCall'.lookups = 0
          /\ lastCall'.fetches = 0
          /\ exchange_rates' = exchange_rates
          /\ lru' = lru
          /\ fetchCount' = fetchCount]_vars

\* an identity conversion of a non-zero amount made while the cache holds rates
C3_Witness ==
    /\ lastCall.op = "convert_currency"
    /\ lastCall.key.from_currency = lastCall.key.to_currency
    /\ lastCall.amount = -250
    /\ lastCall.result = -250
    /\ DOMAIN exchange_rates # {}

\* C4: when the external fetch fails (request error, no rates map, target
\* missing from the rates map) the call ends in an error, returns no rate and
\* no amount, and the fetch was attempted exactly once.
C4_FetchFailureIsError ==
    (lastCall.op # "none" /\ lastCall.fetches > 0 /\ lastCall.resp # "ok")
    => (~lastCall.ok /\ lastCall.fetches = 1 /\ lastCall.result = 0)

\* a conversion whose fetch failed although a rate had been stored for the key
C4_Witness ==
    /\ lastCall.op = "convert_currency"
    /\ lastCall.resp = "no_symbol"
    /\ lastCall.fetches = 1
    /\ ~lastCall.ok
    /\ lastCall.key \in DOMAIN exchange_rates

(***************************************************************************)
(* Claims about transform_data (SpecTransform)                             *)
(***************************************************************************)
\* C5: in every field map convert_financials completes for a non-native
\* target currency, every non-null field is the source field converted with
\* one and the same rate r, and exchange_rate_used is that r, whatever the
\* external source would answer to a further request.
C5_FanOutConsistency ==
    \A c \in AllCurrencies :
        LET e == inv.converted_financials[c]
            row == InputRow(inv.input_metrics)
        IN  (/\ inv.input_metrics # "none"
             /\ e.present
             /\ c # row.currency
             /\ e.entry.exchange_rate_used # Absent)
            => \E r \in Rates :
                   /\ e.entry.exchange_rate_used = Dec(r)
                   /\ \A f \in FieldSet :
                          e.entry[f] = IF row.values[f] = None THEN None
                                       ELSE Dec(Round2(row.values[f].v * r))

\* the CAD map of a USD input, converted at 1.25 with one external request
\* for its ten lookups (nine non-null fields and the recorded rate)
C5_Witness ==
    /\ inv.input_metrics = "usd1"
    /\ inv.converted_financials["CAD"].present
    /\ inv.converted_financials["CAD"].entry.exchange_rate_used = Dec(125)
    /\ inv.converted_financials["CAD"].entry.total_revenue = Dec(1250)
    /\ inv.converted_financials["CAD"].entry.debt_outstanding = None
    /\ inv.lookups = 10
    /\ inv.fetches = 1

\* C6: a second transform_data for the same period, with the same input and
\* the same rates, leaves the committed tables as the first run left them: no
\* row is duplicated and no value changes.
C6_Idempotence ==
    (/\ pc = "done"
     /\ prev.ok
     /\ prev.period = inv.period
     /\ prev.input_metrics = inv.input_metrics
     /\ prev.converted_financials = inv.converted_financials)
    => /\ reporting_financials = prev.financials
       /\ reporting_metrics = prev.metrics

FinancialsKey(r) == <<r.company_id, r.currency, r.reporting_year, r.reporting_quarter>>

\* C7: the committed table holds at most one ReportingFinancials row for
\* each (company, currency, reporting_year, reporting_quarter).
C7_OneFinancialsPerKey ==
    \A r1, r2 \in reporting_financials :
        FinancialsKey(r1) = FinancialsKey(r2) => r1 = r2

\* a second run for the same period after the input was corrected: a row the
\* first run left is overwritten in place
C7_Witness ==
    /\ pc = "done"
    /\ prev.ok
    /\ prev.period = inv.period
    /\ prev.input_metrics # inv.input_metrics
    /\ \E r \in reporting_financials :
           /\ r \notin prev.financials
           /\ \E q \in prev.financials : q.id = r.id

MetricsKey(m) == <<m.company_id, m.reporting_year, m.reporting_quarter>>

\* C8: the committed table holds at most one ReportingMetrics row for each
\* (company, reporting_year, reporting_quarter).
C8_OneMetricsPerPeriod ==
    \A m1, m2 \in reporting_metrics :
        MetricsKey(m1) = MetricsKey(m2) => m1 = m2

RowsOfPeriod(table, p) ==
    {r \in table : <<r.company_id, r.reporting_year, r.reporting_quarter>> = p}

\* C9: the committed tables change only at the commit of an invocation, all
\* at once; an invocation that fails leaves them as they were when it
\* started; and a commit makes visible the changes of the committing
\* invocation only (the writes of an invocation that failed never reach the
\* tables).
C9_AtomicCommit ==
    [][/\ (tableVars' # tableVars) => (pc = "save" /\ pc' = "done")
       /\ (pc' = "failed") => /\ reporting_financials' = start'.financials
                              /\ reporting_metrics' = start'.metrics
       /\ \A p \in Periods :
              p # inv.period
              => /\ RowsOfPeriod(reporting_financials', p)
                      = RowsOfPeriod(reporting_financials, p)
                 /\ RowsOfPeriod(reporting_metrics', p)
                      = RowsOfPeriod(reporting_metrics, p)]_vars

\* C10: once a rate lookup of the fan-out has failed, the invocation has
\* ended in failure at that step: no upsert lookup, no metrics derivation, no
\* add and no commit follows, no object is created or overwritten, and the
\* committed tables and the session are as they were when it started.
C10_RateFailureEndsInvocation ==
    inv.rate_failures > 0
    => /\ pc = "failed"
       /\ inv.failed_at = "fanout"
       /\ trace[Len(trace)] = "rate_unavailable"
       /\ \A n \in 1..Len(trace) :
              trace[n] \notin {"upsert_lookup", "derive_metrics", "add", "commit"}
       /\ \A c \in AllCurrencies : inv.objects[c].kind = "none"
       /\ reporting_financials = start.financials
       /\ reporting_metrics = start.metrics
       /\ session_dirty = start.dirty

\* a EUR input whose USD map was completed before the first CAD lookup
\* failed, while the tables hold rows of an earlier run
C10_Witness ==
    /\ inv.rate_failures > 0
    /\ pc = "failed"
    /\ inv.input_metrics = "eur1"
    /\ inv.t = 2
    /\ inv.converted_financials["USD"].entry.exchange_rate_used = Dec(125)
    /\ reporting_financials # {}

\* C11: when no input row exists for the requested period, transform_data
\* ends with the input-not-found error at the load step, having made no rate
\* lookup, constructed no ReportingFinancials or ReportingMetrics object and
\* written or committed nothing; and calculate_derived_metrics ends with the
\* same error and constructs no ReportingMetrics.
C11_InputNotFound ==
    /\ (pc # "idle" /\ pc # "load" /\ inv.input_metrics = "none")
       => /\ pc = "failed"
          /\ inv.failed_at = "load"
          /\ inv.error = "No input metrics found"
          /\ trace = <<"load">>
          /\ inv.lookups = 0
          /\ inv.fetches = 0
          /\ \A c \in AllCurrencies : inv.objects[c].kind = "none"
          /\ inv.metrics = NoMetrics
          /\ reporting_financials = start.financials
          /\ reporting_metrics = start.metrics
          /\ session_dirty = start.dirty
    /\ inv.derive_input = "none"
       => /\ pc = "failed"
          /\ inv.failed_at = "metrics"
          /\ inv.error = "No input metrics found"
          /\ inv.metrics = NoMetrics
          /\ reporting_metrics = start.metrics
          /\ \A n \in 1..Len(trace) : trace[n] \notin {"add", "commit"}

\* an invocation for a period without input row, over tables that hold rows
C11_Witness ==
    /\ pc = "failed"
    /\ inv.failed_at = "load"
    /\ inv.period = SeedPeriod
    /\ reporting_financials = SeedFinancials

\* C12: a metrics derivation that ends with input-not-found is not fatal
\* for transform_data: the invocation does not fail at that step, it goes on
\* to the adds and the commit with a ReportingMetrics whose LTM fields are
\* unset.
C12_MetricsFailureNotFatal ==
    inv.derive_input = "none"
    => /\ pc \in {"save", "done"}
       /\ inv.metrics # NoMetrics
       /\ inv.metrics.values.ltm_total_revenue = None

\* C13: whatever the native currency of the input row, the entry the
\* completed convert_financials holds for the native currency has the ten
\* monetary fields equal to the input's values and exchange_rate_used = 1.0.
C13_NativeEntry ==
    (inv.input_metrics # "none" /\ inv.t > Len(target_currencies))
    => LET row == InputRow(inv.input_metrics)
           e == inv.converted_financials[row.currency]
       IN  /\ e.present
           /\ e.entry.exchange_rate_used = Dec(100)
           /\ \A f \in FieldSet : e.entry[f] = row.values[f]

\* C14: during one convert_financials call exactly one rate lookup
\* (get_exchange_rate) is made for each target currency that differs from
\* the native one, whatever the number of fields.
C14_OneLookupPerTarget ==
    (inv.input_metrics # "none" /\ inv.t > Len(target_currencies))
    => inv.lookups =
           Cardinality({n \in 1..Len(target_currencies) :
                           target_currencies[n] # InputRow(inv.input_metrics).currency})

\* C15: for every input field whose value is null, every per-currency entry
\* the completed convert_financials holds has null under that field, and no
\* conversion call was made for it (the lookups are those of the non-null
\* fields and of the recorded rate).
C15_NullPassThrough ==
    (inv.input_metrics # "none" /\ inv.t > Len(target_currencies))
    => LET row == InputRow(inv.input_metrics)
           nonnull == Cardinality({f \in FieldSet : row.values[f] # None})
           converted == Cardinality({n \in 1..Len(target_currencies) :
                                        target_currencies[n] # row.currency})
       IN  /\ \A c \in AllCurrencies, f \in FieldSet :
                  (inv.converted_financials[c].present /\ row.values[f] = None)
                  => inv.converted_financials[c].entry[f] = None
           /\ inv.lookups = converted * (nonnull + 1)

\* n (in units of 1/10000) rounded to cents, ties away from zero
HalfUp(n) ==
    IF n >= 0 THEN (n + 50) \div 100 ELSE -((50 - n) \div 100)

\* C16: for different currencies convert_currency returns amount * rate
\* rounded to 2 decimal places half-up (a tie rounds away from zero).
C16_HalfUpRounding ==
    (/\ lastCall.op = "convert_currency"
     /\ lastCall.key.from_currency # lastCall.key.to_currency
     /\ lastCall.ok)
    => lastCall.result = HalfUp(lastCall.amount * lastCall.rate)

(***************************************************************************)
(* Claims about the metrics calculation (SpecMetrics)                      *)
(***************************************************************************)
RatioHelpers ==
    {"calculate_percentage_of_revenue", "calculate_per_fte", "calculate_growth_rate",
     "calculate_runway_months"}

\* C17: every ratio helper returns 0 when its denominator is 0, whatever
\* the numerator; and calculate_derived_metrics succeeds for every input row
\* it finds, with the ratios over a zero total_revenue, a zero head count or
\* a zero cash burn equal to 0.
C17_ZeroGuards ==
    /\ (calc.op \in RatioHelpers /\ calc.y = 0) => (calc.ok /\ calc.value = 0)
    /\ (calc.op = "calculate_derived_metrics" /\ calc.table[calc.period] # "none")
       => LET row == InputRow(calc.table[calc.period])
              m == calc.metrics.values
          IN  /\ calc.ok
              /\ calc.metrics # NoMetrics
              /\ row.values.total_revenue.v = 0
                 => /\ m.recurring_percentage_revenue = 0
                    /\ m.sales_marketing_percentage_revenue = 0
                    /\ m.total_operating_percentage_revenue = 0
                    /\ m.gross_profit_margin = 0
              /\ row.employees = 0
                 => /\ m.revenue_per_fte = 0
                    /\ m.gross_profit_per_fte = 0
              /\ row.values.cash_burn.v = 0
                 => /\ m.monthly_cash_burn = 0
                    /\ m.runway_months = 0

\* derived metrics of a row with no revenue, no employees and no cash burn,
\* but non-zero expenses and cash balance
C17_Witness ==
    /\ calc.op = "calculate_derived_metrics"
    /\ calc.ok
    /\ calc.table[calc.period] = "zero1"
    /\ calc.metrics.values.total_operating_percentage_revenue = 0
    /\ calc.metrics.values.runway_months = 0

QuarterValue(name, field) == InputRow(name).values[field].v

\* the sum of a field over the four quarters of the list
FourQuarterSum(quarters, field) ==
    QuarterValue(quarters[1], field) + QuarterValue(quarters[2], field)
    + QuarterValue(quarters[3], field) + QuarterValue(quarters[4], field)

\* C18: calculate_ltm_metrics ends in an error and returns no aggregate when
\* its list does not hold exactly 4 quarters; given exactly 4, each LTM sum is
\* the exact sum of its field over the four quarters and each LTM margin is
\* calculate_percentage_of_revenue of the LTM figure against LTM total revenue.
C18_LtmExactness ==
    calc.op = "calculate_ltm_metrics"
    => IF Len(calc.quarters) # 4
       THEN ~calc.ok /\ calc.ltm = NoLtm
       ELSE LET q == calc.quarters
                revenue == FourQuarterSum(q, "total_revenue")
            IN  /\ calc.ok
                /\ calc.ltm.ltm_total_revenue = revenue
                /\ calc.ltm.ltm_gross_profit = FourQuarterSum(q, "gross_profit")
                /\ calc.ltm.ltm_sales_marketing_expense =
                       FourQuarterSum(q, "sales_marketing_expense")
                /\ calc.ltm.ltm_operating_expense =
                       FourQuarterSum(q, "total_operating_expense")
                /\ calc.ltm.ltm_ebitda = FourQuarterSum(q, "ebitda")
                /\ calc.ltm.ltm_net_income = FourQuarterSum(q, "net_income")
                /\ calc.ltm.ltm_gross_margin =
                       calculate_percentage_of_revenue(FourQuarterSum(q, "gross_profit"),
                                                       revenue)
                /\ calc.ltm.ltm_ebitda_margin =
                       calculate_percentage_of_revenue(FourQuarterSum(q, "ebitda"), revenue)
                /\ calc.ltm.ltm_net_income_margin =
                       calculate_percentage_of_revenue(FourQuarterSum(q, "net_income"),
                                                       revenue)

\* the aggregate of four different quarters: revenue 10.00 + 12.00 + 0 + 0,
\* net income -2.50 - 2.50 - 0.02 - 1.50, i.e. a margin of -29.64 %
C18_Witness ==
    /\ calc.op = "calculate_ltm_metrics"
    /\ calc.quarters = <<"usd1", "usd2", "eur1", "zero1">>
    /\ calc.ok
    /\ calc.ltm.ltm_total_revenue = 2200
    /\ calc.ltm.ltm_net_income = -652
    /\ calc.ltm.ltm_net_income_margin = -2964

\* the period k quarters before period
QuartersBack(period, k) ==
    LET n == period[2] * 4 + (period[3] - 1) - k
    IN  <<period[1], n \div 4, (n % 4) + 1>>

\* the four consecutive quarters ending at period all have an input row
FourQuartersExist(table, period) ==
    \A k \in 0..3 :
        /\ QuartersBack(period, k) \in DOMAIN table
        /\ table[QuartersBack(period, k)] # "none"

\* C19: a ReportingMetrics produced by calculate_derived_metrics (the one
\* transform_data persists is the object this call returns) has a non-null
\* LTM field only if the four consecutive quarters ending at its period have
\* input rows; with fewer the LTM field is null.
C19_LtmOnlyWithFourQuarters ==
    (calc.op = "calculate_derived_metrics" /\ calc.ok)
    => (calc.metrics.values.ltm_total_revenue # None
        => FourQuartersExist(calc.table, calc.period))

\* metrics of the third quarter of a year whose fourth quarter has no input
\* row: three trailing quarters, LTM field null
C19_Witness ==
    /\ calc.op = "calculate_derived_metrics"
    /\ calc.ok
    /\ calc.period = <<"c1", 2023, 3>>
    /\ \A q \in 1..3 : calc.table[<<"c1", 2023, q>>] = "usd2"
    /\ calc.table[<<"c1", 2023, 4>>] = "none"
    /\ ~FourQuartersExist(calc.table, calc.period)
    /\ calc.metrics.values.ltm_total_revenue = None

\* the input rows of the four quarters ending at period, oldest first
TrailingQuarters(table, period) ==
    [n \in 1..4 |-> table[QuartersBack(period, 4 - n)]]

\* C20: when the four quarters ending at the requested period have input
\* rows, the ReportingMetrics returned by calculate_derived_metrics carries
\* the LTM aggregate calculate_ltm_metrics gives for those four quarters.
C20_LtmAttached ==
    (/\ calc.op = "calculate_derived_metrics"
     /\ calc.ok
     /\ FourQuartersExist(calc.table, calc.period))
    => calc.metrics.values.ltm_total_revenue =
           Dec(calculate_ltm_metrics(TrailingQuarters(calc.table, calc.period))
                   .ltm.ltm_total_revenue)

\* C21: every value calculate_derived_metrics stores has at most the decimal
\* places of its declared scale; the monetary monthly_cash_burn, held here in
\* 1/QuotientScale of a cent, has at most 2, i.e. is a whole number of cents.
C21_DeclaredScale ==
    (calc.op = "calculate_derived_metrics" /\ calc.ok)
    => calc.metrics.values.monthly_cash_burn % QuotientScale = 0

\* C22: two overlapping transform_data invocations for the same period never
\* leave more than one reporting_financials row per company, currency, year
\* and quarter, nor more than one metrics row per company, year and quarter.
C22_ConcurrentUniqueness ==
    /\ \A r1, r2 \in reporting_financials :
           FinancialsKey(r1) = FinancialsKey(r2) => r1 = r2
    /\ \A m1, m2 \in reporting_metrics :
           MetricsKey(m1) = MetricsKey(m2) => m1 = m2

\* the place of a step in the order load, fan-out, upsert lookups, metrics
\* derivation, adds, commit
StepRank(e) ==
    CASE e = "load" -> 1
      [] e \in {"copy_native", "convert", "rate_unavailable"} -> 2
      [] e = "upsert_lookup" -> 3
      [] e = "derive_metrics" -> 4
      [] e = "add" -> 5
      [] e = "commit" -> 6

LruValue(cache, k) == cache[LruIndex(cache, k)].value

C25_ReturnsNativeRecord ==
    pc = "done"
    => LET row == InputRow(inv.input_metrics)
           r == inv.returned.row
       IN  /\ inv.returned.kind \in {"new", "existing"}
           /\ r.currency = row.currency
           /\ \E x \in reporting_financials :
                  /\ x.id = r.id
                  /\ FinancialsKey(x) = FinancialsKey(r)
                  /\ x.fields = r.fields
           /\ inv.metrics \in reporting_metrics
           /\ \A i \in 1..Len(MonetaryFields) :
                  r.fields[MonetaryFields[i]] = row.values[MonetaryFields[i]]
           /\ r.fields["exchange_rate_used"] = Dec(100)

\* the pairs the update is to look up for the reporting currencies cs
ExpectedUpdatePairs(cs) ==
    {Key(cs[i], t, Today) : i \in {j \in 1..Len(cs) : cs[j] \notin {"USD", "CAD"}},
                            t \in {"USD", "CAD"}}
    \cup {Key("USD", "CAD", Today)}

\* C26: an update_exchange_rates call that succeeds has looked up exactly
\* the pairs (c, USD) and (c, CAD) for every reporting currency c other than
\* USD and CAD, and (USD, CAD), each once; a call that fails raises the
\* single error 'Failed to update exchange rates'.
C26_UpdateLookups ==
    upd.called
    => /\ upd.ok
          => /\ {upd.lookups[i] : i \in 1..Len(upd.lookups)}
                   = ExpectedUpdatePairs(upd.reporting_currencies)
             /\ \A i, j \in 1..Len(upd.lookups) :
                    i # j => upd.lookups[i] # upd.lookups[j]
       /\ ~upd.ok => upd.error = "Failed to update exchange rates"

\* the currencies of the converted map of the invocation
ConvertedCurrencies ==
    {c \in AllCurrencies : inv.converted_financials[c].present}

\* the lookups, the identity and the fields of the records the upsert step
\* returns
UpsertRecords ==
    /\ Cardinality({i \in 1..Len(trace) : trace[i] = "upsert_lookup"})
           = Cardinality(ConvertedCurrencies)
    /\ \A c \in AllCurrencies \ ConvertedCurrencies : inv.objects[c].kind = "none"
    /\ \A c \in ConvertedCurrencies :
           LET o == inv.objects[c]
               entry == inv.converted_financials[c].entry
               found == existing_financials(start.financials, inv.period, c)
           IN  /\ o.kind \in {"existing", "new"}
               /\ FinancialsKey(o.row) = <<inv.period[1], c, inv.period[2], inv.period[3]>>
               /\ \A n \in EntryNames : entry[n] # Absent => o.row.fields[n] = entry[n]
               /\ o.kind = "existing" <=> found # {}
               /\ o.kind = "existing" => \E r \in found : r.id = o.row.id
               /\ o.kind = "new" => \A r \in start.financials : r.id # o.row.id

\* the update stamp of the records the upsert step found, once committed
UpsertStamped ==
    pc = "done"
    => \A c \in ConvertedCurrencies :
           inv.objects[c].kind = "existing"
           => \A x \in reporting_financials :
                  x.id = inv.objects[c].row.id
                  => /\ x.last_update_date # None
                     /\ x.last_updated_by # None

\* C27: the upsert step makes one lookup per currency of the converted map
\* and returns one record per currency; a record found for (company,
\* currency, year, quarter) is the one overwritten with every converted
\* field and stamped with an update timestamp and author, and no new record
\* is constructed; when none is found, one new record carries the key and
\* every converted field.
C27_UpsertStep ==
    pc \in {"metrics", "save", "done"} => (UpsertRecords /\ UpsertStamped)

Abs(n) == IF n < 0 THEN 0 - n ELSE n

\* r is the quotient n / d rounded to a whole number of units
Nearest(r, n, d) == 2 * Abs(r * d - n) <= Abs(d)

C29_OverlapSingleValue ==
    \A k \in OverlapKeys :
        /\ \A i, j \in Threads :
               (/\ callers[i].key = k /\ callers[i].pc = "returned"
                /\ callers[j].key = k /\ callers[j].pc = "returned")
               => callers[i].rate = callers[j].rate
        /\ Cardinality({i \in Threads : callers[i].key = k /\ callers[i].fetched}) <= 1

\* C30: the token count of a RateLimiter stays within [0, max_tokens] after
\* any acquire and get_tokens calls with non-decreasing time, and when more
\* than RATE_LIMIT_TOKENS requests reach the middleware with no time elapsed
\* between them, at least one of them is rejected with status 429 (the
\* requests draw on one bucket).
C30_SharedBucket ==
    /\ 0 <= gate.bucket.tokens
    /\ gate.bucket.tokens <= gate.bucket.max_tokens
    /\ gate.burst > RATE_LIMIT_TOKENS => gate.burst_rejected >= 1

====
